---- MODULE Spec2Model ----
(***************************************************************************)
(* Model of bot/cogs/logger.py of MasarykBOT:                              *)
(*   - BackupUntilPresent: the week-by-week message backup of one guild    *)
(*     against the checkpoint table bot.db.logger,                         *)
(*   - Collectable: the chunked bulk insert,                               *)
(*   - BackupOnEvents: the insert/update/delete queues and the periodic    *)
(*     task that puts them to the database.                                *)
(* Time is counted in days; datetime.now() is the variable now.            *)
(***************************************************************************)
EXTENDS Integers, Sequences, FiniteSets, TLC

(* ---------------------------------------------------------------------- *)
(* Program constants                                                       *)
(* ---------------------------------------------------------------------- *)
\* timedelta(weeks=1), in days
Week == 7
\* rows per insert_fn call in Collectable.db_insert
ChunkSize == 550
\* limit= of the three put_queues_to_database calls
InsertLimit == 1000
UpdateLimit == 2000
DeleteLimit == 1000

(* ---------------------------------------------------------------------- *)
(* Bounds of the model                                                     *)
(* ---------------------------------------------------------------------- *)
\* guild.created_at
CreatedAt == 8
\* the clock stops advancing here
MaxNow == 23
\* invocations of backup()
MaxRuns == 3
\* len(guild.text_channels)
NumChannels == 2
\* errors other than Forbidden/NotFound the event source raises in total
MaxFailures == 1
\* events handled by the on_message... listeners
MaxEvents == 1
\* process_fn calls that raise
MaxSinkFailures == 1
\* executions of task_put_queues_to_database
MaxTicks == 2
\* Collectable.add calls
MaxAdds == 2

VARIABLES
    now,            \* datetime.now()
    rows,           \* bot.db.logger: the checkpoint rows of the guild, in insertion order
    stamp,          \* the database's NOW(), strictly increasing with each write of finished_at
    runs,           \* invocations of backup() so far
    pc,             \* where the backup() coroutine is
    raised,         \* the exception that ended the last backup(), "none" if it returned
    clean_start,    \* every checkpoint row was finished when the current backup() began
    failed_rows,    \* local of backup_failed_week
    fi,             \* index of failed_row in failed_rows
    ci,             \* index of channel in guild.text_channels
    from_date,      \* local of backup_new_week / rebackup_failed_week
    to_date,
    is_first_week,  \* finished_process is None
    chanlog,        \* outcome of each channel processed for the current window
    iolog,          \* the history reads and Collectable.db_insert rounds of the window
    other,          \* the locals of a second backup() coroutine, suspended at an await
    fails_left      \* non-skippable errors the event source will still raise

VARIABLES
    queues,         \* <<insert_queues, update_queues, delete_queues>>: each the dict's
                    \* items in insertion order, a deque being the payloads numbered
                    \* head+1..tail in the order they were appended
    running,        \* executions of task_put_queues_to_database in flight
    tpc,            \* "idle", "await" while suspended in process_fn(elements), "cancelled"
    gi,             \* which put_queues_to_database call of the task is running
    ki,             \* position of the iteration over queues.items()
    counter,        \* local of put_queues_to_database
    isz,            \* len(queues) when the iteration over queues.items() began
    take,           \* take_elements of the call in flight
    calls,          \* the process_fn calls of the current execution
    tick_failed,    \* the current execution was ended by an exception
    quiet,          \* nothing was enqueued since the current execution began
    events,         \* events handled so far
    ticks,          \* executions of task_put_queues_to_database begun so far
    sink_fails_left \* process_fn calls that will still raise

VARIABLES
    content,        \* Collectable.content
    cpc,            \* "collect", "db_insert" (in the loop), "inserted", "raised"
    chunk_i,        \* i of db_insert
    chunk_n,        \* len(self.content) when range() was evaluated
    batches,        \* the batches insert_fn was called with, in call order
    adds            \* Collectable.add calls so far

flush_vars == <<queues, running, tpc, gi, ki, counter, isz, take, calls,
                tick_failed, quiet, events, ticks, sink_fails_left>>

coll_vars == <<content, cpc, chunk_i, chunk_n, batches, adds>>

sched_vars == <<now, rows, stamp, runs, pc, raised, clean_start, failed_rows, fi, ci,
                from_date, to_date, is_first_week, chanlog, iolog, other, fails_left>>

vars == <<sched_vars, flush_vars, coll_vars>>

(* ---------------------------------------------------------------------- *)
(* Checkpoint store bot.db.logger (rows keyed by from_date, to_date)       *)
(* finished_at = 0 stands for NULL                                         *)
(* ---------------------------------------------------------------------- *)
Row(f, t) == [from_date |-> f, to_date |-> t, finished_at |-> 0, is_first_week |-> FALSE]

HasRow(rs, f, t) == \E i \in 1..Len(rs) : rs[i].from_date = f /\ rs[i].to_date = t

\* bot.db.logger.start_process: the row (from, to) is stored unfinished
start_process(rs, f, t) ==
    IF HasRow(rs, f, t)
    THEN [i \in 1..Len(rs) |->
            IF rs[i].from_date = f /\ rs[i].to_date = t THEN Row(f, t) ELSE rs[i]]
    ELSE Append(rs, Row(f, t))

\* bot.db.logger.mark_process_finished: sets finished_at of the row (from, to)
mark_process_finished(rs, f, t, first, at) ==
    [i \in 1..Len(rs) |->
        IF rs[i].from_date = f /\ rs[i].to_date = t
        THEN [rs[i] EXCEPT !.finished_at = at, !.is_first_week = first]
        ELSE rs[i]]

\* bot.db.logger.select
select(rs) == rs

(* ---------------------------------------------------------------------- *)
(* Pure helpers of BackupUntilPresent                                      *)
(* ---------------------------------------------------------------------- *)
partition_failed_none(rs) == << >>

\* partition(lambda row: row.get("finished_at") is None, rows)[0]
partition_failed(rs) == SelectSeq(rs, LAMBDA r : r.finished_at = 0)

\* max(..., key=finished_at) compares None with a datetime: TypeError
max_raises(rs) == Len(rs) > 1 /\ \E i \in 1..Len(rs) : rs[i].finished_at = 0

\* index of the row get_finished_process returns, 0 for None
\* (max returns the first of the rows with the greatest finished_at)
get_finished_process(rs) ==
    IF Len(rs) = 0 THEN 0
    ELSE CHOOSE i \in 1..Len(rs) :
            /\ \A j \in 1..Len(rs) : rs[j].finished_at <= rs[i].finished_at
            /\ \A j \in 1..(i-1) : rs[j].finished_at < rs[i].finished_at

get_next_week(created_at, rs, p) ==
    IF p = 0
    THEN <<created_at, created_at + Week>>
    ELSE <<rs[p].to_date, rs[p].to_date + Week>>

\* lines 98-99: a week that starts in the future is replaced by the last week
clamp_to_now(w, n) == IF w[1] > n THEN <<n - Week, n>> ELSE w

next_week_still_behind_today_no_week(t, n) == t < n

next_week_still_behind_today_always(t, n) == TRUE

next_week_still_behind_today(t, n) == t + Week < n

Outcomes == {"empty", "ok", "Forbidden", "NotFound", "error"}

propagates_nothing(outcome) == FALSE

propagates_forbidden(outcome) == outcome \notin {"empty", "ok", "NotFound"}

\* try_to_backup_messages_in_nonempty_channel: which outcomes leave the call by an exception
propagates(outcome) == outcome \notin {"empty", "ok", "Forbidden", "NotFound"}

\* channel.history(...) of channel c was read, to its end or until it raised
History(c, exhausted) == [op |-> "history", ch |-> c, exhausted |-> exhausted]

\* the db_insert of the collectables of channel c, lines 148-149
DbInsert(c) == [op |-> "db_insert", ch |-> c, exhausted |-> TRUE]

io_of_channel_deferred(c, outcome, at_flush) ==
    IF outcome = "empty" THEN << >>
    ELSE <<History(c, outcome = "ok" \/ (outcome = "error" /\ at_flush))>>

\* what backup_messages_in_nonempty_channel does with channel c: nothing for
\* a channel without messages (line 127), else the history is read and, in
\* the else of the async for, the collectables are inserted; an error is
\* raised by the history or (at_flush) by an insert_fn
io_of_channel(c, outcome, at_flush) ==
    IF outcome = "empty" THEN << >>
    ELSE IF outcome = "ok" \/ (outcome = "error" /\ at_flush)
         THEN <<History(c, TRUE), DbInsert(c)>>
         ELSE <<History(c, FALSE)>>

\* a backup() coroutine that is not running
IdleRun ==
    [pc |-> "idle", raised |-> "none", clean_start |-> TRUE, failed_rows |-> << >>,
     fi |-> 0, ci |-> 0, from_date |-> 0, to_date |-> 0, is_first_week |-> FALSE,
     chanlog |-> << >>, iolog |-> << >>]

(* ---------------------------------------------------------------------- *)
(* Initial states of the three parts                                       *)
(* ---------------------------------------------------------------------- *)
\* no event listener has run and the task is between two executions
FlushIdle ==
    /\ queues = << << >>, << >>, << >> >>
    /\ running = 0
    /\ tpc = "idle"
    /\ gi = 0
    /\ ki = 0
    /\ counter = 0
    /\ isz = 0
    /\ take = 0
    /\ calls = << >>
    /\ tick_failed = FALSE
    /\ quiet = TRUE
    /\ events = 0
    /\ ticks = 0
    /\ sink_fails_left = 0

\* Collectable.__init__
CollIdle ==
    /\ content = << >>
    /\ cpc = "collect"
    /\ chunk_i = 0
    /\ chunk_n = 0
    /\ batches = << >>
    /\ adds = 0

\* the locals of backup() when it is not running
NoLocals ==
    /\ failed_rows = << >>
    /\ fi = 0
    /\ ci = 0
    /\ from_date = 0
    /\ to_date = 0
    /\ is_first_week = FALSE
    /\ chanlog = << >>
    /\ iolog = << >>

SchedIdle ==
    /\ now = CreatedAt
    /\ rows = << >>
    /\ stamp = 0
    /\ runs = 0
    /\ pc = "idle"
    /\ raised = "none"
    /\ clean_start = TRUE
    /\ NoLocals
    /\ other = IdleRun
    /\ fails_left = 0

\* an empty checkpoint table, the guild just created
Init ==
    /\ FlushIdle
    /\ CollIdle
    /\ now = CreatedAt
    /\ rows = << >>
    /\ stamp = 0
    /\ runs = 0
    /\ pc = "idle"
    /\ raised = "none"
    /\ clean_start = TRUE
    /\ NoLocals
    /\ other = IdleRun
    /\ fails_left = MaxFailures

(* ---------------------------------------------------------------------- *)
(* The clock                                                               *)
(* ---------------------------------------------------------------------- *)
Tick ==
    /\ now < MaxNow
    /\ now' = now + 1
    /\ UNCHANGED <<rows, stamp, runs, pc, raised, clean_start, failed_rows, fi, ci,
                   from_date, to_date, is_first_week, chanlog, iolog, fails_left>>
    /\ UNCHANGED <<other, flush_vars, coll_vars>>

(* ---------------------------------------------------------------------- *)
(* BackupUntilPresent                                                      *)
(* ---------------------------------------------------------------------- *)
\* backup() returns (exc = "none") or is left by the exception exc
Leave(exc) ==
    /\ pc' = IF exc = "none" THEN "done" ELSE "aborted"
    /\ raised' = exc
    /\ failed_rows' = << >>
    /\ fi' = 0
    /\ ci' = 0
    /\ from_date' = 0
    /\ to_date' = 0
    /\ is_first_week' = FALSE
    /\ chanlog' = << >>

\* on_ready / the backup command: backup() up to the call of backup_failed_weeks
backup ==
    /\ pc \in {"idle", "done", "aborted"}
    /\ runs < MaxRuns
    /\ runs' = runs + 1
    /\ pc' = "backup_failed_week"
    /\ raised' = "none"
    /\ clean_start' = \A i \in 1..Len(rows) : rows[i].finished_at # 0
    /\ UNCHANGED <<now, rows, stamp, failed_rows, fi, ci, from_date, to_date,
                   is_first_week, chanlog, iolog, fails_left>>
    /\ UNCHANGED <<other, flush_vars, coll_vars>>

\* backup_failed_week, lines 78-79, with the return of line 84 and the loop
\* test of backup_failed_weeks when failed_rows is empty
backup_failed_week ==
    /\ pc = "backup_failed_week"
    /\ LET failed == partition_failed(select(rows)) IN
        /\ failed_rows' = failed
        /\ iolog' = << >>
        /\ IF Len(failed) = 0
           THEN /\ pc' = "backup_new_week"
                /\ UNCHANGED <<fi, ci, from_date, to_date, chanlog>>
           ELSE /\ pc' = "rebackup_failed_week"
                /\ fi' = 1
                /\ ci' = 1
                /\ from_date' = failed[1].from_date
                /\ to_date' = failed[1].to_date
                /\ chanlog' = << >>
    /\ UNCHANGED <<now, rows, stamp, runs, raised, clean_start, is_first_week, fails_left>>
    /\ UNCHANGED <<other, flush_vars, coll_vars>>

\* one iteration of "for channel in guild.text_channels" (lines 90-91, 102-103):
\* try_to_backup_messages_in_nonempty_channel with its outcome
backup_channel ==
    /\ pc \in {"rebackup_failed_week", "backup_new_week_channels"}
    /\ ci <= NumChannels
    /\ \E outcome \in Outcomes, at_flush \in BOOLEAN :
        /\ outcome = "error" => fails_left > 0
        /\ at_flush => outcome = "error"
        /\ fails_left' = IF outcome = "error" THEN fails_left - 1 ELSE fails_left
        /\ iolog' = iolog \o io_of_channel(ci, outcome, at_flush)
        /\ IF propagates(outcome)
           THEN Leave(outcome)
           ELSE /\ chanlog' = Append(chanlog, outcome)
                /\ ci' = ci + 1
                /\ UNCHANGED <<pc, raised, failed_rows, fi, from_date, to_date,
                               is_first_week>>
    /\ UNCHANGED <<now, rows, stamp, runs, clean_start>>
    /\ UNCHANGED <<other, flush_vars, coll_vars>>

\* rebackup_failed_week, line 93, and the next iteration of the loop of line 81
\* or the return of line 84
rebackup_mark_finished ==
    /\ pc = "rebackup_failed_week"
    /\ ci > NumChannels
    /\ stamp' = stamp + 1
    /\ rows' = mark_process_finished(rows, from_date, to_date, FALSE, stamp + 1)
    /\ IF fi < Len(failed_rows)
       THEN /\ fi' = fi + 1
            /\ ci' = 1
            /\ from_date' = failed_rows[fi + 1].from_date
            /\ to_date' = failed_rows[fi + 1].to_date
            /\ chanlog' = << >>
            /\ iolog' = << >>
            /\ pc' = pc
       ELSE /\ pc' = "sleep_failed"
            /\ UNCHANGED <<fi, ci, from_date, to_date, chanlog, iolog>>
    /\ UNCHANGED <<now, runs, raised, clean_start, failed_rows, is_first_week, fails_left>>
    /\ UNCHANGED <<other, flush_vars, coll_vars>>

\* backup_failed_weeks, line 70
sleep_failed ==
    /\ pc = "sleep_failed"
    /\ pc' = "backup_failed_week"
    /\ UNCHANGED <<now, rows, stamp, runs, raised, clean_start, failed_rows, fi, ci,
                   from_date, to_date, is_first_week, chanlog, iolog, fails_left>>
    /\ UNCHANGED <<other, flush_vars, coll_vars>>

\* backup_new_week, lines 96-99: the select of get_finished_process is
\* answered and the window is computed, up to the await of start_process
backup_new_week ==
    /\ pc = "backup_new_week"
    /\ iolog' = << >>
    /\ IF max_raises(select(rows))
       THEN Leave("TypeError")
       ELSE LET p == get_finished_process(select(rows))
                w == clamp_to_now(get_next_week(CreatedAt, rows, p), now)
            IN  /\ from_date' = w[1]
                /\ to_date' = w[2]
                /\ is_first_week' = (p = 0)
                /\ pc' = "start_process"
                /\ UNCHANGED <<raised, failed_rows, fi, ci, chanlog>>
    /\ UNCHANGED <<now, rows, stamp, runs, clean_start, fails_left>>
    /\ UNCHANGED <<other, flush_vars, coll_vars>>

\* backup_new_week, line 100: start_process is carried out for the window
\* computed before the await
backup_new_week_start_process ==
    /\ pc = "start_process"
    /\ rows' = start_process(rows, from_date, to_date)
    /\ ci' = 1
    /\ chanlog' = << >>
    /\ pc' = "backup_new_week_channels"
    /\ UNCHANGED <<now, stamp, runs, raised, clean_start, failed_rows, fi, from_date,
                   to_date, is_first_week, iolog, fails_left>>
    /\ UNCHANGED <<other, flush_vars, coll_vars>>

\* backup_new_week, lines 105-107, and the loop test of backup_new_weeks
new_week_mark_finished ==
    /\ pc = "backup_new_week_channels"
    /\ ci > NumChannels
    /\ stamp' = stamp + 1
    /\ rows' = mark_process_finished(rows, from_date, to_date, is_first_week, stamp + 1)
    /\ IF next_week_still_behind_today(to_date, now)
       THEN /\ pc' = "sleep_new"
            /\ UNCHANGED <<raised, failed_rows, fi, ci, from_date, to_date,
                           is_first_week, chanlog, iolog>>
       ELSE /\ Leave("none")
            /\ iolog' = << >>
    /\ UNCHANGED <<now, runs, clean_start, fails_left>>
    /\ UNCHANGED <<other, flush_vars, coll_vars>>

\* backup_new_weeks, line 75
sleep_new ==
    /\ pc = "sleep_new"
    /\ pc' = "backup_new_week"
    /\ UNCHANGED <<now, rows, stamp, runs, raised, clean_start, failed_rows, fi, ci,
                   from_date, to_date, is_first_week, chanlog, iolog, fails_left>>
    /\ UNCHANGED <<other, flush_vars, coll_vars>>

\* the coroutine is cancelled or the process ends while backup() is
\* suspended at an await
stop ==
    /\ pc \notin {"idle", "done", "aborted"}
    /\ Leave("stopped")
    /\ iolog' = << >>
    /\ UNCHANGED <<now, rows, stamp, runs, clean_start, fails_left>>
    /\ UNCHANGED <<other, flush_vars, coll_vars>>

(* ---------------------------------------------------------------------- *)
(* BackupOnEvents: the queues                                              *)
(* ---------------------------------------------------------------------- *)
Min(a, b) == IF a <= b THEN a ELSE b

\* limit= of the call for insert_queues, update_queues, delete_queues
Limit(g) == <<InsertLimit, UpdateLimit, DeleteLimit>>[g]

\* len(queue)
QLen(q) == q.tail - q.head

HasKey(d, fn) == \E i \in 1..Len(d) : d[i].fn = fn

\* queues.setdefault(fn, deque()) followed by queues[fn].append(data)
setdefault_append(d, fn) ==
    IF HasKey(d, fn)
    THEN [i \in 1..Len(d) |-> IF d[i].fn = fn THEN [d[i] EXCEPT !.tail = @ + 1] ELSE d[i]]
    ELSE Append(d, [fn |-> fn, head |-> 0, tail |-> 1])

popleft_keep(d, k, n) == d

popleft_extra(d, k, n) == [d EXCEPT ![k].head = @ + n + 1]

\* [queue.popleft() for _ in range(n)]
popleft(d, k, n) == [d EXCEPT ![k].head = @ + n]

\* line 342
take_elements(limit, c, qlen) == Min(limit - c, qlen)

ScanEnd(kind) == [kind |-> kind, g |-> 0, k |-> 0, counter |-> 0, isz |-> 0, take |-> 0]

\* task_put_queues_to_database from the point where the iteration over
\* qs[g].items() asks for its item k, up to the next process_fn call:
\* "call" with the call to make, "end" when the three groups are through,
\* "error" for the RuntimeError of a dict that changed size during iteration
RECURSIVE put_queues_to_database(_, _, _, _, _)
put_queues_to_database(qs, g, k, c, sz) ==
    IF g > 3 THEN ScanEnd("end")
    ELSE IF Len(qs[g]) # sz THEN ScanEnd("error")
    ELSE IF k > sz
         THEN put_queues_to_database(qs, g + 1, 1, 0, IF g < 3 THEN Len(qs[g + 1]) ELSE 0)
    ELSE LET te == take_elements(Limit(g), c, QLen(qs[g][k])) IN
         IF te = 0
         THEN put_queues_to_database(qs, g + 1, 1, 0, IF g < 3 THEN Len(qs[g + 1]) ELSE 0)
         ELSE [kind |-> "call", g |-> g, k |-> k, counter |-> c, isz |-> sz, take |-> te]

\* discord.ext.tasks.loop runs one execution at a time: the next one starts
\* only when none is in flight
may_start(r) == r = 0

\* the execution goes on to r: it pops and calls process_fn, or it is over
Proceed(r, log, inflight) ==
    /\ gi' = r.g
    /\ ki' = r.k
    /\ counter' = r.counter
    /\ isz' = r.isz
    /\ take' = r.take
    /\ tick_failed' = (r.kind = "error")
    /\ IF r.kind = "call"
       THEN /\ tpc' = "await"
            /\ running' = inflight
            /\ queues' = [queues EXCEPT ![r.g] = popleft(@, r.k, r.take)]
            /\ calls' = Append(log,
                    [g |-> r.g, k |-> r.k, fn |-> queues[r.g][r.k].fn,
                     first |-> queues[r.g][r.k].head + 1, n |-> r.take,
                     budget |-> Limit(r.g) - r.counter,
                     qlen |-> QLen(queues[r.g][r.k])])
       ELSE /\ tpc' = "idle"
            /\ running' = inflight - 1
            /\ queues' = queues
            /\ calls' = log

\* tasks.loop(minutes=5) starts an execution of the task
task_put_queues_to_database ==
    /\ tpc # "cancelled"
    /\ may_start(running)
    /\ ticks < MaxTicks
    /\ ticks' = ticks + 1
    /\ Proceed(put_queues_to_database(queues, 1, 1, 0, Len(queues[1])),
               << >>, running + 1)
    /\ quiet' = TRUE
    /\ UNCHANGED <<events, sink_fails_left>>
    /\ UNCHANGED <<sched_vars, coll_vars>>

\* await process_fn(elements) returns or raises (lines 347-348, 335-336)
process_fn_returns ==
    /\ tpc = "await"
    /\ \E raises \in BOOLEAN :
        /\ raises => sink_fails_left > 0
        /\ sink_fails_left' = IF raises THEN sink_fails_left - 1 ELSE sink_fails_left
        /\ IF raises
           THEN /\ tpc' = "idle"
                /\ running' = running - 1
                /\ tick_failed' = TRUE
                /\ gi' = 0
                /\ ki' = 0
                /\ counter' = 0
                /\ isz' = 0
                /\ take' = 0
                /\ UNCHANGED <<queues, calls>>
           ELSE Proceed(put_queues_to_database(queues, gi, ki + 1, counter + take, isz),
                        calls, running)
    /\ UNCHANGED <<quiet, events, ticks>>
    /\ UNCHANGED <<sched_vars, coll_vars>>

\* cog_unload, lines 186-187: the loop is cancelled; an execution suspended
\* in process_fn is left by CancelledError, which line 335 does not catch,
\* and no execution starts again
cog_unload ==
    /\ tpc # "cancelled"
    /\ tpc' = "cancelled"
    /\ running' = 0
    /\ gi' = 0
    /\ ki' = 0
    /\ counter' = 0
    /\ isz' = 0
    /\ take' = 0
    /\ UNCHANGED <<queues, calls, tick_failed, quiet, events, ticks, sink_fails_left>>
    /\ UNCHANGED <<sched_vars, coll_vars>>

\* an event listener that does not return early: it appends to queues[g][fn]
Listener(g, fn) ==
    /\ events < MaxEvents
    /\ events' = events + 1
    /\ queues' = [queues EXCEPT ![g] = setdefault_append(@, fn)]
    /\ quiet' = FALSE
    /\ UNCHANGED <<running, tpc, gi, ki, counter, isz, take, calls,
                   tick_failed, ticks, sink_fails_left>>
    /\ UNCHANGED <<sched_vars, coll_vars>>

on_message == Listener(1, "messages.insert")

on_message_edit == Listener(2, "messages.insert")

on_message_delete == Listener(3, "messages.soft_delete")

on_member_update == Listener(2, "members.insert")

\* deques the listeners and earlier executions can have left behind, as
\* <<head, tail>>: drained, 1200 items, 2500 items
SmallDeques == {<<1, 1>>, <<0, 1200>>}

InitDeques == SmallDeques \cup {<<0, 2500>>}

Deque(fn, d) == [fn |-> fn, head |-> d[1], tail |-> d[2]]

DictsOver(fns, ds) ==
    {<< >>}
    \cup {<<Deque(fn, d)>> : fn \in fns, d \in ds}
    \cup {<<Deque(p[1], d1), Deque(p[2], d2)>> :
            p \in {q \in fns \X fns : q[1] # q[2]}, d1 \in ds, d2 \in ds}

FlushInit ==
    /\ SchedIdle
    /\ CollIdle
    /\ queues \in {<<i, u, d>> :
            i \in DictsOver({"messages.insert"}, SmallDeques),
            u \in DictsOver({"messages.insert", "members.insert"}, InitDeques),
            d \in DictsOver({"messages.soft_delete"}, SmallDeques)}
    /\ running = 0
    /\ tpc = "idle"
    /\ gi = 0
    /\ ki = 0
    /\ counter = 0
    /\ isz = 0
    /\ take = 0
    /\ calls = << >>
    /\ tick_failed = FALSE
    /\ quiet = TRUE
    /\ events = 0
    /\ ticks = 0
    /\ sink_fails_left = MaxSinkFailures

FlushNext ==
    \/ task_put_queues_to_database
    \/ process_fn_returns
    \/ cog_unload
    \/ on_message
    \/ on_message_edit
    \/ on_message_delete
    \/ on_member_update

FlushSpec == FlushInit /\ [][FlushNext]_vars

(* ---------------------------------------------------------------------- *)
(* Collectable                                                             *)
(* ---------------------------------------------------------------------- *)
\* rows prepare_fn extracts from one message
MaxRowsPerItem == 2

batch_short(c, i) == SubSeq(c, i + 1, Min(i + ChunkSize - 1, Len(c)))

\* self.content[i:i+550]
batch(c, i) == SubSeq(c, i + 1, Min(i + ChunkSize, Len(c)))

\* Collectable.add: content.extend(await prepare_fn(item))
add ==
    /\ cpc = "collect"
    /\ adds < MaxAdds
    /\ adds' = adds + 1
    /\ \E k \in 0..MaxRowsPerItem :
        content' = content \o [j \in 1..k |-> Len(content) + j]
    /\ UNCHANGED <<cpc, chunk_i, chunk_n, batches>>
    /\ UNCHANGED <<sched_vars, flush_vars>>

\* Collectable.db_insert up to the evaluation of range(0, len(self.content), 550);
\* it can be called again after it returned or raised
db_insert ==
    /\ cpc \in {"collect", "inserted", "raised"}
    /\ chunk_i' = 0
    /\ chunk_n' = Len(content)
    /\ batches' = << >>
    /\ cpc' = IF Len(content) = 0 THEN "inserted" ELSE "db_insert"
    /\ UNCHANGED <<content, adds>>
    /\ UNCHANGED <<sched_vars, flush_vars>>

\* one iteration of the loop of db_insert, lines 383-384
db_insert_batch ==
    /\ cpc = "db_insert"
    /\ chunk_i < chunk_n
    /\ batches' = Append(batches, batch(content, chunk_i))
    /\ \E raises \in BOOLEAN :
        IF raises
        THEN /\ cpc' = "raised"
             /\ chunk_i' = chunk_i
        ELSE /\ chunk_i' = chunk_i + ChunkSize
             /\ cpc' = IF chunk_i + ChunkSize < chunk_n THEN "db_insert" ELSE "inserted"
    /\ UNCHANGED <<content, chunk_n, adds>>
    /\ UNCHANGED <<sched_vars, flush_vars>>

\* rows accumulated before the model starts
CollectSizes == {0, 1, 549, 550, 551, 1100, 1200}

CollInit ==
    /\ SchedIdle
    /\ FlushIdle
    /\ content \in {[j \in 1..n |-> j] : n \in CollectSizes}
    /\ cpc = "collect"
    /\ chunk_i = 0
    /\ chunk_n = 0
    /\ batches = << >>
    /\ adds = 0

CollNext ==
    \/ add
    \/ db_insert
    \/ db_insert_batch

CollSpec == CollInit /\ [][CollNext]_vars

Next ==
    \/ Tick
    \/ backup
    \/ backup_failed_week
    \/ backup_channel
    \/ rebackup_mark_finished
    \/ sleep_failed
    \/ backup_new_week
    \/ backup_new_week_start_process
    \/ new_week_mark_finished
    \/ sleep_new
    \/ stop

Spec == Init /\ [][Next]_vars

(* ---------------------------------------------------------------------- *)
(* backup() with an event source that does not fail and is not stopped     *)
(* ---------------------------------------------------------------------- *)
\* an empty table, or the first week left unfinished by an interrupted run
LiveInit ==
    /\ FlushIdle
    /\ CollIdle
    /\ now = CreatedAt
    /\ rows \in {<< >>, <<Row(CreatedAt, CreatedAt + Week)>>}
    /\ stamp = 0
    /\ runs = 0
    /\ pc = "idle"
    /\ raised = "none"
    /\ clean_start = TRUE
    /\ NoLocals
    /\ other = IdleRun
    /\ fails_left = 0

\* the steps of a backup() that was started
Step ==
    \/ backup_failed_week
    \/ backup_channel
    \/ rebackup_mark_finished
    \/ sleep_failed
    \/ backup_new_week
    \/ backup_new_week_start_process
    \/ new_week_mark_finished
    \/ sleep_new

LiveNext ==
    \/ Tick
    \/ backup
    \/ Step

\* the event loop resumes a coroutine whose await has completed
LiveSpec == LiveInit /\ [][LiveNext]_vars /\ WF_vars(Step)

(* ---------------------------------------------------------------------- *)
(* Two backup() coroutines: on_ready and the backup command                *)
(* ---------------------------------------------------------------------- *)
Resting == {"idle", "done", "aborted"}

\* the event loop suspends the backup() coroutine that was running at its
\* await and resumes the other one, or lets on_ready / the backup command
\* (lines 358-369) start one beside it
switch ==
    /\ pc \notin Resting \/ other.pc \notin Resting
    /\ other' = [pc |-> pc, raised |-> raised, clean_start |-> clean_start,
                 failed_rows |-> failed_rows, fi |-> fi, ci |-> ci,
                 from_date |-> from_date, to_date |-> to_date,
                 is_first_week |-> is_first_week, chanlog |-> chanlog,
                 iolog |-> iolog]
    /\ pc' = other.pc
    /\ raised' = other.raised
    /\ clean_start' = other.clean_start
    /\ failed_rows' = other.failed_rows
    /\ fi' = other.fi
    /\ ci' = other.ci
    /\ from_date' = other.from_date
    /\ to_date' = other.to_date
    /\ is_first_week' = other.is_first_week
    /\ chanlog' = other.chanlog
    /\ iolog' = other.iolog
    /\ UNCHANGED <<now, rows, stamp, runs, fails_left>>
    /\ UNCHANGED <<flush_vars, coll_vars>>

\* the guild is 16 days old, its checkpoint table is empty and the event
\* source raises nothing but Forbidden and NotFound
ConcInit ==
    /\ FlushIdle
    /\ CollIdle
    /\ now = CreatedAt + 2 * Week + 2
    /\ rows = << >>
    /\ stamp = 0
    /\ runs = 0
    /\ pc = "idle"
    /\ raised = "none"
    /\ clean_start = TRUE
    /\ NoLocals
    /\ other = IdleRun
    /\ fails_left = 0

ConcNext ==
    \/ backup
    \/ backup_failed_week
    \/ backup_channel
    \/ rebackup_mark_finished
    \/ sleep_failed
    \/ backup_new_week
    \/ backup_new_week_start_process
    \/ new_week_mark_finished
    \/ sleep_new
    \/ switch

ConcSpec == ConcInit /\ [][ConcNext]_vars

(* ---------------------------------------------------------------------- *)
(* Properties of the backup of past weeks                                  *)
(* ---------------------------------------------------------------------- *)
AllFinished(rs) == \A i \in 1..Len(rs) : rs[i].finished_at # 0

AtRest == runs >= 1 /\ pc \in {"done", "aborted"}

\* the stored row of the window backup() is working on
CurrentRows == {i \in 1..Len(rows) : rows[i].from_date = from_date /\ rows[i].to_date = to_date}

Overlap(r1, r2) == r1.from_date < r2.to_date /\ r2.from_date < r1.to_date

\* the [from, to) of the rows rs tile [a, b) exactly
Tiles(rs, a, b) ==
    /\ \E i \in 1..Len(rs) : rs[i].from_date = a
    /\ \E i \in 1..Len(rs) : rs[i].to_date = b
    /\ \A i \in 1..Len(rs) :
        /\ a <= rs[i].from_date
        /\ rs[i].from_date < rs[i].to_date
        /\ rs[i].to_date = b \/ \E j \in 1..Len(rs) : rs[j].from_date = rs[i].to_date
    /\ \A i, j \in 1..Len(rs) : i # j => ~Overlap(rs[i], rs[j])

\* C1 (Coverage): whenever backup_messages runs to completion, the
\* [from, to) of the guild's rows tile [created_at, now): next.from = prev.to,
\* no overlap, the first starts at created_at and the last ends at now.
C1_Coverage ==
    [][(pc # "done" /\ pc' = "done" /\ now' > CreatedAt) => Tiles(rows', CreatedAt, now')]_vars

\* C2 (Retry convergence): an invocation that began with unfinished rows and
\* has come to rest, without having been stopped, while the event source
\* has stopped failing has left no unfinished row.
C2_RetryConvergence ==
    (AtRest /\ raised # "stopped" /\ ~clean_start /\ fails_left = 0) => AllFinished(rows)

FirstWeekRow ==
    [from_date |-> CreatedAt, to_date |-> CreatedAt + Week,
     finished_at |-> 1, is_first_week |-> TRUE]

\* created_at + 1 week < now < created_at + 2 weeks
InSecondWeek(n) == CreatedAt + Week < n /\ n < CreatedAt + 2 * Week

\* backup_new_week opens a window for a guild without rows during the second week
OpensInScenario ==
    /\ pc = "start_process"
    /\ pc' = "backup_new_week_channels"
    /\ rows = << >>
    /\ InSecondWeek(now)

\* backup_new_week finishes that window during the second week
FinishesInScenario ==
    /\ pc = "backup_new_week_channels"
    /\ pc' # pc
    /\ pc' # "aborted"
    /\ rows = <<Row(CreatedAt, CreatedAt + Week)>>
    /\ InSecondWeek(now)

\* C5 as stated (Clamping scenario): created_at + 1 week < now < created_at
\* + 2 weeks, no rows: having finished [created_at, created_at + 7d) the
\* invocation goes on to open a second window.
C5_Original ==
    [][FinishesInScenario => pc' = "sleep_new"]_vars

\* C5 as amended: in that scenario one invocation opens the first week
\* [created_at, created_at + 7d), finishes it as the first week and ends
\* there, not behind because to + 7d >= now; it opens no second window.
C5_FirstWeekOnly ==
    [][/\ OpensInScenario =>
            /\ rows' = <<Row(CreatedAt, CreatedAt + Week)>>
            /\ is_first_week'
       /\ FinishesInScenario =>
            /\ rows' = <<FirstWeekRow>>
            /\ to_date + Week >= now
            /\ pc' = "done"]_vars

C5_Witness ==
    /\ runs = 1
    /\ pc = "done"
    /\ now = CreatedAt + 10
    /\ rows = <<FirstWeekRow>>

\* C6 (Idempotence): in an invocation of backup() that began with every row
\* finished, no step starts or finishes again a window that is finished: every
\* finished row keeps its finished_at.
C6_Idempotence ==
    [][clean_start =>
        \A i \in 1..Len(rows) :
            rows[i].finished_at # 0 => rows'[i].finished_at = rows[i].finished_at]_vars

\* the rows whose finished_at the step writes
Marked == {i \in 1..Len(rows) : rows[i].finished_at = 0 /\ rows'[i].finished_at # 0}

InChannels == pc \in {"rebackup_failed_week", "backup_new_week_channels"}

\* C7: the row of a window is finished only after every text channel was
\* processed for it without an error other than Forbidden/NotFound; the
\* step in which such an error is raised ends the run and leaves the row of
\* the window unfinished. For new and for retried windows.
C7_MarkOnlyAfterAllChannels ==
    [][/\ Marked # {} =>
            /\ InChannels
            /\ Marked = CurrentRows
            /\ Len(chanlog) = NumChannels
            /\ \A k \in 1..Len(chanlog) : chanlog[k] # "error"
       /\ (InChannels /\ raised' = "error") =>
            /\ pc' = "aborted"
            /\ rows' = rows
            /\ CurrentRows # {}
            /\ \A i \in CurrentRows : rows[i].finished_at = 0]_vars

C7_Witness ==
    /\ pc = "aborted"
    /\ raised = "error"
    /\ fails_left = MaxFailures - 1
    /\ rows # << >>
    /\ rows[Len(rows)].finished_at = 0

\* the step processes a channel that raises Forbidden or NotFound
Skipped ==
    /\ InChannels
    /\ ci <= NumChannels
    /\ Len(chanlog') = Len(chanlog) + 1
    /\ chanlog'[Len(chanlog')] \in {"Forbidden", "NotFound"}

\* C8: Forbidden and NotFound end only the channel that raised them: they
\* never leave backup(), the run goes on with the next channel, every channel
\* is gone through and, unless the coroutine is stopped, the window is
\* finished at the end.
C8_SkippableErrors ==
    [][/\ raised' \notin {"Forbidden", "NotFound"}
       /\ Skipped => (pc' = pc /\ ci' = ci + 1 /\ rows' = rows)
       /\ InChannels' => Len(chanlog') = ci' - 1
       /\ (InChannels /\ ci > NumChannels /\ now' = now /\ raised' # "stopped") =>
            /\ Len(chanlog) = NumChannels
            /\ Marked = CurrentRows
            /\ Marked # {}]_vars

C8_Witness ==
    /\ pc = "sleep_failed"
    /\ Len(chanlog) = NumChannels
    /\ chanlog[1] = "Forbidden"
    /\ chanlog[2] = "NotFound"
    /\ CurrentRows # {}
    /\ \A i \in CurrentRows : rows[i].finished_at # 0

\* the step in which the start_process of backup_new_week is carried out
Opens == pc = "start_process" /\ pc' = "backup_new_week_channels"

\* the step in which backup_new_week reads the table and computes its window
Scans == pc = "backup_new_week" /\ pc' = "start_process"

\* C12 (Retry precedes advancement): start_process is never called while
\* the checkpoint table holds an unfinished row: every invocation has
\* retried all of them before.
C12_RetryPrecedesAdvancement ==
    [][Opens => AllFinished(rows)]_vars

Finished(rs) == {i \in 1..Len(rs) : rs[i].finished_at # 0}

\* the finished row with the greatest finished_at
LastFinished(rs) ==
    CHOOSE i \in Finished(rs) : \A j \in Finished(rs) : rs[j].finished_at <= rs[i].finished_at

\* the window ScanNew computes from the rows rs
ScanNew(rs) ==
    IF Finished(rs) = {}
    THEN <<CreatedAt, CreatedAt + Week>>
    ELSE <<rs[LastFinished(rs)].to_date, rs[LastFinished(rs)].to_date + Week>>

\* the window that is opened at time n
Opened(rs, n) == IF ScanNew(rs)[1] > n THEN <<n - Week, n>> ELSE ScanNew(rs)

\* C15 (ScanNew): the window backup_new_week opens is the first week,
\* marked as the first, exactly when no row is finished, else the week after
\* the row finished last, not marked as the first; [now - 1 week, now)
\* when that week starts after now; and that window is the one it marks
\* finished.
C15_ScanNew ==
    [][/\ Scans =>
            /\ <<from_date', to_date'>> = Opened(rows, now)
            /\ is_first_week' = (Finished(rows) = {})
       /\ Opens =>
            /\ <<from_date', to_date'>> = <<from_date, to_date>>
            /\ \E i \in 1..Len(rows') :
                    /\ rows'[i].from_date = from_date'
                    /\ rows'[i].to_date = to_date'
                    /\ rows'[i].finished_at = 0
       /\ (pc = "backup_new_week_channels" /\ stamp' # stamp) =>
            \A i \in 1..Len(rows) :
                rows'[i] # rows[i] =>
                    /\ rows[i].from_date = from_date /\ rows[i].to_date = to_date
                    /\ rows'[i] = [rows[i] EXCEPT !.finished_at = stamp',
                                                  !.is_first_week = is_first_week]]_vars

Unfinished(rs) == {i \in 1..Len(rs) : rs[i].finished_at = 0}

\* C16 (Resumption): a window whose processing is ended by a stop or by an
\* error other than Forbidden/NotFound is left unfinished in the table; an
\* invocation that finds unfinished rows retries exactly those, with their
\* stored bounds; the retry of a row goes through every channel and then
\* finishes that same row with is_first_week = FALSE; a retry adds no row.
C16_Resumption ==
    [][/\ (InChannels /\ pc' = "aborted") =>
            /\ rows' = rows
            /\ CurrentRows # {}
            /\ \A i \in CurrentRows : rows[i].finished_at = 0
       /\ (/\ pc = "backup_failed_week"
           /\ pc' # "aborted"
           /\ now' = now
           /\ other' = other
           /\ Unfinished(rows) # {}) =>
            /\ pc' = "rebackup_failed_week"
            /\ rows' = rows
            /\ Len(failed_rows') = Cardinality(Unfinished(rows))
            /\ {failed_rows'[i] : i \in 1..Len(failed_rows')}
                    = {rows[i] : i \in Unfinished(rows)}
            /\ <<from_date', to_date'>> = <<failed_rows'[1].from_date, failed_rows'[1].to_date>>
            /\ ci' = 1
       /\ (pc = "rebackup_failed_week" /\ stamp' # stamp) =>
            /\ Len(chanlog) = NumChannels
            /\ <<from_date, to_date>> = <<failed_rows[fi].from_date, failed_rows[fi].to_date>>
            /\ Len(rows') = Len(rows)
            /\ \A i \in 1..Len(rows) :
                IF i \in CurrentRows
                THEN rows'[i] = [rows[i] EXCEPT !.finished_at = stamp',
                                               !.is_first_week = FALSE]
                ELSE rows'[i] = rows[i]
            /\ fi < Len(failed_rows) =>
                    <<from_date', to_date', ci'>> =
                        <<failed_rows[fi + 1].from_date, failed_rows[fi + 1].to_date, 1>>
       /\ pc \in {"backup_failed_week", "rebackup_failed_week", "sleep_failed"} =>
            Len(rows') = Len(rows)]_vars

\* the first week of the guild, interrupted in the first invocation, was
\* retried and finished by the second
C16_Witness ==
    /\ runs = 2
    /\ pc = "sleep_failed"
    /\ Len(chanlog) = NumChannels
    /\ rows = <<[from_date |-> CreatedAt, to_date |-> CreatedAt + Week,
                 finished_at |-> 1, is_first_week |-> FALSE]>>

\* the step in which backup_new_week marks its window finished and returns
Finishes == pc = "backup_new_week_channels" /\ stamp' # stamp

\* C17 (Advancement loop): having finished a new window, backup_new_weeks
\* goes on to another one exactly when to_date + 1 week < now and is done
\* otherwise; with an event source that does not fail and a clock that stops
\* advancing it ends, and then the last window has to_date + 1 week >= now.
C17_AdvancementLoop ==
    /\ [][/\ Finishes => (pc' = "sleep_new" <=> to_date + Week < now)
          /\ Finishes => (pc' = "done" <=> to_date + Week >= now)
          /\ (pc = "sleep_new" /\ pc' # pc) => pc' = "backup_new_week"
          /\ (pc = "backup_new_week" /\ pc' # pc) => pc' = "start_process"
          /\ (pc = "start_process" /\ pc' # pc) => pc' = "backup_new_week_channels"]_vars
    /\ (pc = "backup_new_week") ~> (pc = "done")

\* one invocation that opened and finished two windows and ended
C17_Witness ==
    /\ runs = 1
    /\ pc = "done"
    /\ now >= CreatedAt + 2 * Week + 1
    /\ Len(rows) = 2
    /\ AllFinished(rows)
    /\ rows[2].from_date = rows[1].to_date
    /\ rows[2].to_date + Week >= now

\* C18 (Per-channel durability ordering): within the run of a window the
\* channels are read in order, the collectables of a channel are inserted
\* right after its history was read to the end and before the history of
\* the next channel is read, and nothing is inserted for a channel whose
\* history was not read to the end; so when a later channel fails, the rows
\* of every earlier channel that was read to the end have been handed over.
C18_FlushBeforeNextChannel ==
    \A i \in 1..Len(iolog) :
        /\ (iolog[i].op = "history" /\ iolog[i].exhausted) =>
                (i < Len(iolog) /\ iolog[i + 1] = DbInsert(iolog[i].ch))
        /\ iolog[i].op = "db_insert" =>
                (i > 1 /\ iolog[i - 1] = History(iolog[i].ch, TRUE))
        /\ \A j \in 1..Len(iolog) :
                (i < j /\ iolog[i].op = "history" /\ iolog[j].op = "history") =>
                    iolog[i].ch < iolog[j].ch

\* the second channel's history raised after the first channel was inserted
C18_Witness ==
    /\ pc = "aborted"
    /\ raised = "error"
    /\ iolog = <<History(1, TRUE), DbInsert(1), History(2, FALSE)>>
    /\ \E i \in 1..Len(rows) : rows[i].finished_at = 0

\* C20: an exception raised by a sink or by the store while a window is
\* written does not end the invocation of backup(): no backup() is left by
\* the exception of an insert_fn call.
C20_FailureSwallowed ==
    ~(/\ pc = "aborted"
      /\ raised = "error"
      /\ iolog # << >>
      /\ iolog[Len(iolog)].op = "db_insert")

\* a window of the guild is between start_process / the start of its retry
\* and mark_process_finished
Processing(p) == p \in {"rebackup_failed_week", "backup_new_week_channels"}

\* C19: at most one window of the guild is being processed at any time,
\* also when backup() is invoked while another backup() is suspended.
C19_OneWindowAtATime ==
    ~(Processing(pc) /\ Processing(other.pc))

\* C21 (No window reaches into the future): the window start_process
\* stores and the window mark_process_finished finishes have to_date <= now
\* at that moment.
C21_NoFutureWindow ==
    [][/\ Opens => to_date' <= now
       /\ Marked # {} => to_date <= now]_vars

(* ---------------------------------------------------------------------- *)
(* Properties of the queues                                                *)
(* ---------------------------------------------------------------------- *)
\* an execution is over, no process_fn call raised, the iteration did not
\* break and no listener appended since the execution began
TickOver == ticks >= 1 /\ tpc = "idle" /\ ~tick_failed /\ quiet

\* items of queues[g][k] handed to process_fn in the execution
Taken(g, k) ==
    IF \E c \in 1..Len(calls) : calls[c].g = g /\ calls[c].k = k
    THEN calls[CHOOSE c \in 1..Len(calls) : calls[c].g = g /\ calls[c].k = k].n
    ELSE 0

RECURSIVE TakenBefore(_, _)
TakenBefore(g, k) == IF k <= 1 THEN 0 ELSE TakenBefore(g, k - 1) + Taken(g, k - 1)

\* C3 (Flush budget): in an execution without failure every kind of a
\* group, in registration order, has its sink called at most once, with
\* exactly the first min(remaining group budget, queue length) items of its
\* queue, and the group's total stays within its budget.
C3_FlushBudget ==
    TickOver =>
        /\ \A c, d \in 1..Len(calls) :
                c < d => \/ calls[c].g < calls[d].g
                         \/ calls[c].g = calls[d].g /\ calls[c].k < calls[d].k
        /\ \A g \in 1..3 :
            /\ TakenBefore(g, Len(queues[g]) + 1) <= Limit(g)
            /\ \A k \in 1..Len(queues[g]) :
                /\ Taken(g, k) = Min(Limit(g) - TakenBefore(g, k),
                                     QLen(queues[g][k]) + Taken(g, k))
                /\ \A c \in 1..Len(calls) :
                        (calls[c].g = g /\ calls[c].k = k) =>
                            calls[c].first = queues[g][k].head - calls[c].n + 1

\* C9: in an execution without failure a queue that is still non-empty
\* after its group was served was left so because the group's budget was
\* used up.
C9_StopOnlyOnBudget ==
    TickOver =>
        \A g \in 1..3 : \A k \in 1..Len(queues[g]) :
            QLen(queues[g][k]) > 0 => TakenBefore(g, Len(queues[g]) + 1) = Limit(g)

\* the step in which the process_fn call in flight raises
SinkRaises == tpc = "await" /\ sink_fails_left' < sink_fails_left

\* none of the payloads numbered a..b is in the deque q
NoneInDeque(q, a, b) == b <= q.head \/ q.tail < a

\* C11 (Tick failure policy): when a process_fn call raises, the execution
\* ends there without the exception leaving the task (no execution is in
\* flight, so the next interval starts one), nothing more is popped or
\* handed over, no payload of the slice of the failing call is in its queue
\* and every queue is as it was when the call was made.
C11_TickFailurePolicy ==
    [][SinkRaises =>
        /\ tpc' = "idle"
        /\ running' = 0
        /\ tick_failed'
        /\ calls' = calls
        /\ queues' = queues
        /\ LET c == calls[Len(calls)] IN
            /\ c.g = gi /\ c.k = ki /\ c.n = take /\ take >= 1
            /\ NoneInDeque(queues'[gi][ki], c.first, c.first + c.n - 1)]_vars

\* a failed execution that left a later kind and a later group undrained
C11_Witness ==
    /\ tpc = "idle"
    /\ tick_failed
    /\ sink_fails_left < MaxSinkFailures
    /\ Len(calls) = 1
    /\ calls[1].g = 2 /\ calls[1].k = 1
    /\ Len(queues[2]) = 2
    /\ QLen(queues[2][1]) = 500
    /\ QLen(queues[2][2]) = 1200
    /\ Len(queues[3]) = 1 /\ QLen(queues[3][1]) = 1200

\* the call the step makes: the last of the calls of the execution
LastCall == calls'[Len(calls')]

\* C14 (Queue discipline): no step removes or reorders a queue; a payload
\* enters a queue at its tail; payloads leave it from its head only, in the
\* order they were appended and never again once they left, and only as the
\* slice of the process_fn call of the queue's kind made in the same step.
C14_QueueDiscipline ==
    [][\A g \in 1..3 :
        /\ Len(queues'[g]) >= Len(queues[g])
        /\ \A k \in 1..Len(queues[g]) :
            LET q == queues[g][k]
                r == queues'[g][k]
            IN  /\ r.fn = q.fn
                /\ r.tail \in {q.tail, q.tail + 1}
                /\ r.head >= q.head
                /\ r.head <= q.tail
                /\ r.head > q.head =>
                    /\ tpc' = "await"
                    /\ Len(calls') >= 1
                    /\ Len(calls') = 1 \/ calls' = Append(calls, LastCall)
                    /\ LastCall.g = g
                    /\ LastCall.k = k
                    /\ LastCall.fn = q.fn
                    /\ LastCall.first = q.head + 1
                    /\ LastCall.n = r.head - q.head]_vars

\* a queue of 1200 to which one payload was appended, handed over in two
\* executions: 1..1000, then 1001..1201
C14_Witness ==
    /\ ticks = 2
    /\ Len(calls) >= 1
    /\ calls[1].g = 1
    /\ calls[1].first = 1001
    /\ calls[1].n = 201
    /\ queues[1][1].head = 1201
    /\ queues[1][1].tail = 1201

\* a listener appends while an execution is suspended in process_fn
EnqueuesDuringCall == tpc = "await" /\ events' = events + 1

\* payloads in the queues of group g
Queued(qs, g) ==
    LET RECURSIVE Sum(_)
        Sum(k) == IF k = 0 THEN 0 ELSE Sum(k - 1) + QLen(qs[g][k])
    IN  Sum(Len(qs[g]))

\* C22 (Enqueue is independent of a running execution): a listener that
\* appends while an execution is suspended in process_fn leaves the
\* execution as it is and its payload is in the queue; and an execution in
\* which no process_fn call raised is not ended by an exception, whatever
\* was appended meanwhile.
C22_EnqueueIndependent ==
    [][/\ EnqueuesDuringCall =>
            /\ tpc' = tpc /\ running' = running /\ calls' = calls
            /\ \E g \in 1..3 :
                /\ Queued(queues', g) = Queued(queues, g) + 1
                /\ \A h \in (1..3) \ {g} : queues'[h] = queues[h]
       /\ (tpc = "await" /\ tpc' = "idle" /\ ~SinkRaises) => ~tick_failed']_vars

\* the first half of C22 alone: the listener does not fail and the payload
\* is retained
EnqueueRetained ==
    [][EnqueuesDuringCall =>
            /\ tpc' = tpc /\ running' = running /\ calls' = calls
            /\ \E g \in 1..3 : Queued(queues', g) = Queued(queues, g) + 1]_vars

(* ---------------------------------------------------------------------- *)
(* Properties of Collectable                                               *)
(* ---------------------------------------------------------------------- *)
RECURSIVE Concat(_)
Concat(bs) == IF bs = << >> THEN << >> ELSE Head(bs) \o Concat(Tail(bs))

\* ceil(n / 550)
Chunks(n) == (n + ChunkSize - 1) \div ChunkSize

\* C4 (Chunking): db_insert over n rows makes ceil(n / 550) insert_fn calls,
\* each of 550 rows except possibly the last, and the batches in call order
\* concatenate to the rows in their order.
C4_Chunking ==
    cpc = "inserted" =>
        /\ Len(batches) = Chunks(Len(content))
        /\ \A b \in 1..Len(batches) :
            /\ b < Len(batches) => Len(batches[b]) = ChunkSize
            /\ Len(batches[b]) >= 1
            /\ Len(batches[b]) <= ChunkSize
        /\ Concat(batches) = content

\* C13 (Collector flush effect): after a db_insert in which every
\* insert_fn call succeeded the content is empty, so that a second db_insert
\* calls insert_fn with nothing; when an insert_fn call raises, db_insert
\* raises and the content is as it was.
C13_FlushEffect ==
    [][/\ (cpc = "inserted" /\ batches' = << >>) =>
            (content = << >> /\ cpc' = "inserted")
       /\ (cpc = "db_insert" /\ cpc' = "raised") =>
            (content' = content /\ content # << >>)]_vars

C4_Witness ==
    /\ cpc = "inserted"
    /\ Len(content) = 1200
    /\ Len(batches) = 3
    /\ Len(batches[1]) = 550
    /\ Len(batches[2]) = 550
    /\ Len(batches[3]) = 100

TypeOK ==
    /\ now \in Int
    /\ runs \in 0..MaxRuns
    /\ ci \in 0..(NumChannels + 1)
    /\ fails_left \in 0..MaxFailures
====
